---- MODULE Spec2Model ----
(***************************************************************************)
(* GoBabyGo car controller, "Simple 4 Direction".                          *)
(*                                                                         *)
(* Two sketches of the repository are modelled:                            *)
(*   - the LCD sketch (src/unnamed/part_000), built with USE_LCD = true    *)
(*     ("LCD") or with USE_LCD = false ("Default", compiled-in defaults);  *)
(*   - the New Board sketch (the .ino file), built with USE_LCD = false    *)
(*     ("NewBoard"), which has the motor inversion flags.                  *)
(* The target is an 8-bit AVR board: int is 16 bits wide, so a comparison  *)
(* of an int with a uint16_t is made in unsigned 16-bit arithmetic.        *)
(***************************************************************************)
EXTENDS Integers, FiniteSets, Sequences, TLC

(***************************************************************************)
(* Program constants of the LCD sketch.                                    *)
(***************************************************************************)
MIN_FORWARD_THRESH == 600
MAX_FORWARD_THRESH == 1000
MIN_REVERSE_THRESH == 0
MAX_REVERSE_THRESH == 400
MIN_LEFT_THRESH == 0
MAX_LEFT_THRESH == 400
MIN_RIGHT_THRESH == 600
MAX_RIGHT_THRESH == 1000
MIN_SPEED_LIMIT == 72
MAX_SPEED_LIMIT == 512
MIN_INCREASE_RAMPING == 1
MAX_INCREASE_RAMPING == 30
MIN_DECREASE_RAMPING == 1
MAX_DECREASE_RAMPING == 30

DEFAULT_FORWARD_THRESH == 630
DEFAULT_REVERSE_THRESH == 340
DEFAULT_LEFT_THRESH == 400
DEFAULT_RIGHT_THRESH == 600
DEFAULT_SPEED_LIMIT == 256
DEFAULT_INCREASE_RAMPING == 15
DEFAULT_DECREASE_RAMPING == 20

\* TURN_SPEED_RATIO = 1.5, kept as the fraction 3/2
TURN_SPEED_RATIO_NUM == 3
TURN_SPEED_RATIO_DEN == 2

\* REVERSE_SPEED_RATIO = 1.5, kept as the fraction 3/2
REVERSE_SPEED_RATIO_NUM == 3
REVERSE_SPEED_RATIO_DEN == 2

REVERSE_PULSE == 1000
FORWARD_PULSE == 2000
NEUTRAL_SPEED == 500
CONSECUTIVE_TOUCH_DELAY == 100

ALLOW_EEPROM_WRITES == TRUE
DEBUG == FALSE

FORWARD_SENS_ADDRESS == 1
REVERSE_SENS_ADDRESS == 2
LEFT_SENS_ADDRESS == 3
RIGHT_SENS_ADDRESS == 4
SPEED_LIMIT_ADDRESS == 5
ACC_RATE_ADDRESS == 6
DEC_RATE_ADDRESS == 7

\* touch screen extents of the buttons
L_BUTTON_R1_TOUCH_X1 == 1000
L_BUTTON_R1_TOUCH_X2 == 1300
L_BUTTON_R2_TOUCH_X1 == 1450
L_BUTTON_R2_TOUCH_X2 == 1750
L_BUTTON_R3_TOUCH_X1 == 1900
L_BUTTON_R3_TOUCH_X2 == 2200
L_BUTTON_R4_TOUCH_X1 == 2350
L_BUTTON_R4_TOUCH_X2 == 2650
L_BUTTON_C1_TOUCH_Y1 == 3870
L_BUTTON_C1_TOUCH_Y2 == 3650
L_BUTTON_C2_TOUCH_Y1 == 2800
L_BUTTON_C2_TOUCH_Y2 == 2550
INC_BTNS_TOUCH_X1 == 2800
INC_BTNS_TOUCH_X2 == 3100
x1_TOUCH_Y1 == 3550
x1_TOUCH_Y2 == 3200
x5_TOUCH_Y1 == 3150
x5_TOUCH_Y2 == 2800
x10_TOUCH_Y1 == 3750
x10_TOUCH_Y2 == 2400
SAVE_VAL_TOUCH_X1 == 3250
SAVE_VAL_TOUCH_X2 == 3550
SAVE_VAL_TOUCH_Y1 == 3870
SAVE_VAL_TOUCH_Y2 == 2190
R_BUTTON_R1_TOUCH_X1 == 1000
R_BUTTON_R1_TOUCH_X2 == 1300
R_BUTTON_R2_TOUCH_X1 == 2200
R_BUTTON_R2_TOUCH_X2 == 2550
R_BUTTON_R3_TOUCH_X1 == 3400
R_BUTTON_R3_TOUCH_X2 == 3700
R_BUTTON_C1_TOUCH_Y1 == 2000
R_BUTTON_C1_TOUCH_Y2 == 1770
R_BUTTON_C2_TOUCH_Y1 == 860
R_BUTTON_C2_TOUCH_Y2 == 650

(***************************************************************************)
(* Program constants of the New Board sketch.                              *)
(***************************************************************************)
RIGHT_THRESH == 600
LEFT_THRESH == 400
FORWARD_THRESH == 630
REVERSE_THRESH == 340
SPEED_LIMIT == 206
INCREASE_RAMPING == 5
DECREASE_RAMPING == 15
INVERT_LEFT_MOTOR == FALSE
INVERT_RIGHT_MOTOR == TRUE

(***************************************************************************)
(* C arithmetic on the AVR target.                                         *)
(***************************************************************************)
\* uint16_t: a value reduced modulo 2^16
U16(v) == v % 65536

\* int16_t: the two's complement reading of the low 16 bits
I16(v) == IF (v % 65536) >= 32768 THEN (v % 65536) - 65536 ELSE v % 65536

\* uint8_t
U8(v) == v % 256

\* C division truncates toward zero (the divisor is positive in every use)
TruncDiv(a, b) == IF a >= 0 THEN a \div b ELSE -((-a) \div b)

\* Arduino's long map(long x, long in_min, long in_max, long out_min, long out_max)
map(x, in_min, in_max, out_min, out_max) ==
    TruncDiv((x - in_min) * (out_max - out_min), in_max - in_min) + out_min

\* a float in 0..1024 with a fractional part of 0, 1/3 or 2/3, converted to long
TurnLow(limit) ==
    TruncDiv(512 * TURN_SPEED_RATIO_NUM - limit * TURN_SPEED_RATIO_DEN, TURN_SPEED_RATIO_NUM)

TurnHigh(limit) ==
    TruncDiv(512 * TURN_SPEED_RATIO_NUM + limit * TURN_SPEED_RATIO_DEN, TURN_SPEED_RATIO_NUM)


(***************************************************************************)
(* State.                                                                  *)
(***************************************************************************)
VARIABLES
    sketch,               \* which sketch and build option is running
    debug,                \* the value DEBUG was compiled with
    stamps,               \* the millis() values at which the touch interrupt may fire
    pc,                   \* position of the main program
    eeprom,               \* EEPROM cells 1..7
    percent,              \* the seven percentage settings, by EEPROM address
    readoutIncrement,
    forwardThresh, reverseThresh, leftThresh, rightThresh,
    speedLimit, accRate, decRate,
    trim,                 \* FWD_LEFT_TRIM, REV_LEFT_TRIM, FWD_RIGHT_TRIM, REV_RIGHT_TRIM
    timePressed, prevTimePressed,
    moveValue, rotateValue,
    prevLeftMotorSpeed, prevRightMotorSpeed,
    directionChanged, leftResetComplete, rightResetComplete,
    nextLeftSpeed, nextRightSpeed,
    prevLeft, prevRight,
    leftMotorPulse, rightMotorPulse,
    crossed,              \* history, per motor: sides of neutral its outputs were on since
                          \* its last output of exactly NEUTRAL_SPEED ("farfwd", "farrev":
                          \* further than MAX_DECREASE_RAMPING from neutral)
    far,                  \* history, per motor: sides on which an output lay further than
                          \* MAX_DECREASE_RAMPING from neutral since the last resync
                          \* iteration that left the motor within decRate of neutral
    resetCount,           \* history: iterations of the running resync loop, its start
                          \* speeds and its decRate
    changes,              \* history: how many cycles have changed the targets
    rampCount,            \* history, per motor: calls of drive() since the targets last
                          \* changed that found the motor away from its target
    raw, classified       \* the analog readings of the two axes and the levels they were
                          \* classified to, recorded by the classifier specification

settings == <<percent, readoutIncrement>>
derived == <<forwardThresh, reverseThresh, leftThresh, rightThresh, speedLimit, accRate, decRate>>
touchTimes == <<timePressed, prevTimePressed>>
targets == <<moveValue, rotateValue, prevLeftMotorSpeed, prevRightMotorSpeed, nextLeftSpeed, nextRightSpeed>>
interlock == <<directionChanged, leftResetComplete, rightResetComplete>>
motors == <<prevLeft, prevRight, leftMotorPulse, rightMotorPulse, crossed, far>>
samples == <<raw, classified>>

vars == <<sketch, debug, stamps, pc, eeprom, settings, derived, trim, touchTimes, targets, interlock,
          motors, resetCount, changes, rampCount, samples>>

(***************************************************************************)
(* Input Classifier and Target Speed Calculator (getJoystickInputs,        *)
(* setLeftRightMotorSpeeds).                                               *)
(***************************************************************************)
\* AxisLevel with the comparisons taken inclusive
AxisLevelInclusive(readP, readN, posThresh, negThresh) ==
    IF readP >= posThresh THEN 1023 ELSE IF readN <= negThresh THEN 0 ELSE 512

\* x_p ? 1023 : (x_n ? 0 : 512); the axis is read once for each comparison
AxisLevel(readP, readN, posThresh, negThresh) ==
    IF readP > posThresh THEN 1023 ELSE IF readN < negThresh THEN 0 ELSE 512

\* the signed distance of a mapped axis value from 512
Signed(v) == I16(IF v > 512 THEN v - 512 ELSE -(512 - v))

MoveValue(level, limit) ==
    Signed(U16(map(level, 0, 1023, 512 - limit, 512 + limit)))

\* "Set motor speeds to MIN_SPEED_LIMIT if target speed is below minimum"
MinTurnSpeed(r) ==
    IF r < -3 /\ U16(r) > U16(-MIN_SPEED_LIMIT) THEN I16(-MIN_SPEED_LIMIT)
    ELSE IF r > 3 /\ U16(r) < MIN_SPEED_LIMIT THEN MIN_SPEED_LIMIT
    ELSE r

\* RotateValue without the minimum turn speed
RotateValueUnraised(sk, level, limit) ==
    Signed(U16(map(level, 0, 1023, TurnLow(limit), TurnHigh(limit))))

RotateValue(sk, level, limit) ==
    IF sk = "NewBoard"
    THEN Signed(map(level, 0, 1023, 512 - limit, 512 + limit))
    ELSE MinTurnSpeed(Signed(U16(map(level, 0, 1023, TurnLow(limit), TurnHigh(limit)))))

\* LeftMotorSpeed with both axes mixed into the target
LeftMotorSpeedMixed(sk, move, rot, tr) ==
    IF sk = "NewBoard" THEN move + rot
    ELSE IF move + rot > 0 THEN U16(move + rot - tr.fwdLeft)
    ELSE IF move + rot < 0 THEN U16(move + rot + tr.revLeft)
    ELSE 0

\* leftMotorSpeed of setLeftRightMotorSpeeds
LeftMotorSpeed(sk, move, rot, tr) ==
    IF sk = "NewBoard"
    THEN (IF move # 0 THEN move ELSE rot)
    ELSE IF move > 0 THEN U16(move - tr.fwdLeft)
    ELSE IF move < 0 THEN U16(move + tr.revLeft)
    ELSE IF rot < 0 THEN U16(rot + tr.revLeft)
    ELSE IF rot > 0 THEN U16(rot - tr.fwdLeft)
    ELSE 0

\* rightMotorSpeed of setLeftRightMotorSpeeds
RightMotorSpeed(sk, move, rot, tr) ==
    IF sk = "NewBoard"
    THEN (IF move # 0 THEN move ELSE -rot)
    ELSE IF move > 0 THEN U16(move - tr.fwdRight)
    ELSE IF move < 0 THEN U16(move + tr.revRight)
    ELSE IF rot < 0 THEN U16((-rot) - tr.fwdRight)
    ELSE IF rot > 0 THEN U16((-rot) + tr.revRight)
    ELSE 0

\* the argument handed to drive()
NextSpeed(sk, motorSpeed) ==
    IF sk = "NewBoard" THEN map(motorSpeed, -512, 512, 0, 1023) ELSE I16(motorSpeed)

\* DriveTarget without the rescaling to the pulse range
DriveTargetUnscaled(sk, next) ==
    IF sk = "NewBoard" THEN next ELSE U16(next + 512)

\* the drive speed in 0..1000 that drive() maps its argument to
DriveTarget(sk, next) ==
    IF sk = "NewBoard"
    THEN map(next, 0, 1023, 0, FORWARD_PULSE - REVERSE_PULSE)
    ELSE U16(map(next, -512, 512, 0, FORWARD_PULSE - REVERSE_PULSE))

(***************************************************************************)
(* Rate Limiter and Pulse-Width Mapper (drive, resetMotorSpeeds).          *)
(***************************************************************************)
\* RampLeft without the ramp: the target is sent at once
RampLeftDirect(sk, target, prev, acc) == target

\* left motor of drive()
RampLeft(sk, target, prev, acc) ==
    IF sk = "NewBoard"
    THEN (IF target > prev + acc THEN prev + acc
          ELSE IF target < prev - acc THEN prev - acc
          ELSE target)
    ELSE IF target > U16(prev + acc)
         THEN (IF U16(prev + acc) < FORWARD_PULSE - REVERSE_PULSE
               THEN U16(prev + acc)
               ELSE FORWARD_PULSE - REVERSE_PULSE)
    ELSE IF target < U16(prev - acc)
         THEN (IF prev - acc > 0 THEN U16(prev - acc) ELSE 0)
    ELSE target

\* RampRight of a right motor that backs off by one once it is at its target
RampRightRestless(sk, target, prev, acc) ==
    IF target > prev + acc THEN prev + acc
    ELSE IF target < prev - acc THEN prev - acc
    ELSE IF target = prev /\ prev > 0 THEN prev - 1
    ELSE target

\* right motor of drive()
RampRight(sk, target, prev, acc) ==
    IF sk = "NewBoard"
    THEN (IF target > prev + acc THEN prev + acc
          ELSE IF target < prev - acc THEN prev - acc
          ELSE target)
    ELSE IF target > U16(prev + acc)
         THEN (IF target < FORWARD_PULSE - REVERSE_PULSE
               THEN U16(prev + acc)
               ELSE FORWARD_PULSE - REVERSE_PULSE)
    ELSE IF target < U16(prev - acc)
         THEN (IF prev - acc > 0 THEN U16(prev - acc) ELSE 0)
    ELSE target

\* ResetSpeed with the step of the reverse side subtracted too
ResetSpeedAway(speed, dec) ==
    IF speed > U16(NEUTRAL_SPEED + dec) THEN U16(speed - dec)
    ELSE IF speed < U16(NEUTRAL_SPEED - dec) THEN U16(speed - dec)
    ELSE speed

\* one motor in one iteration of the loop of resetMotorSpeeds()
ResetSpeed(speed, dec) ==
    IF speed > U16(NEUTRAL_SPEED + dec) THEN U16(speed - dec)
    ELSE IF speed < U16(NEUTRAL_SPEED - dec) THEN U16(speed + dec)
    ELSE speed

\* ResetComplete testing the forward side only
ResetCompleteAbove(speed, dec) == ~(speed > U16(NEUTRAL_SPEED + dec))

\* the else branch of that iteration: the motor has come to a stop
ResetComplete(speed, dec) ==
    ~(speed > U16(NEUTRAL_SPEED + dec)) /\ ~(speed < U16(NEUTRAL_SPEED - dec))

\* MotorPulse of a motor that is never inverted
MotorPulseStraight(inverted, speed) == REVERSE_PULSE + speed

\* pulse width for a drive speed
MotorPulse(inverted, speed) ==
    IF inverted THEN FORWARD_PULSE - speed ELSE REVERSE_PULSE + speed

\* Sent of a build that writes the pulse in debug mode too
SentAlways(dbg, last, pulse) == pulse

\* "Send PWM signal to the ... motor (As long as DEBUG mode is not enabled)": the pulse the
\* motor controller holds after if (!DEBUG) writeMicroseconds(pulse)
Sent(dbg, last, pulse) == IF dbg THEN last ELSE pulse

InvertLeft(sk) == sk = "NewBoard" /\ INVERT_LEFT_MOTOR
InvertRight(sk) == sk = "NewBoard" /\ INVERT_RIGHT_MOTOR


(***************************************************************************)
(* Touch screen buttons (loop, updateSensitivityReadout,                   *)
(* updateMotionCharReadout).                                               *)
(***************************************************************************)
\* the row of the input sensitivity menu that touch_x lies in, 0 for none
SensitivityRow(tx) ==
    IF tx > L_BUTTON_R1_TOUCH_X1 /\ tx < L_BUTTON_R1_TOUCH_X2 THEN 1
    ELSE IF tx > L_BUTTON_R2_TOUCH_X1 /\ tx < L_BUTTON_R2_TOUCH_X2 THEN 2
    ELSE IF tx > L_BUTTON_R3_TOUCH_X1 /\ tx < L_BUTTON_R3_TOUCH_X2 THEN 3
    ELSE IF tx > L_BUTTON_R4_TOUCH_X1 /\ tx < L_BUTTON_R4_TOUCH_X2 THEN 4
    ELSE 0

\* the row of the motion characteristics menu that touch_x lies in, 0 for none
MotionRow(tx) ==
    IF tx > R_BUTTON_R1_TOUCH_X1 /\ tx < R_BUTTON_R1_TOUCH_X2 THEN 1
    ELSE IF tx > R_BUTTON_R2_TOUCH_X1 /\ tx < R_BUTTON_R2_TOUCH_X2 THEN 2
    ELSE IF tx > R_BUTTON_R3_TOUCH_X1 /\ tx < R_BUTTON_R3_TOUCH_X2 THEN 3
    ELSE 0

\* UpdateReadout with the decrease tested in signed arithmetic, which never exceeds 100
UpdateReadoutSigned(p, upOrDown, incAmount) ==
    IF upOrDown = "U" /\ p # 100
    THEN (IF p + incAmount > 100 THEN 100 ELSE U16(p + incAmount))
    ELSE IF upOrDown = "D" /\ p # 0
    THEN (IF p - incAmount > 100 THEN 0 ELSE U16(p - incAmount))
    ELSE p

\* one case of updateSensitivityReadout / updateMotionCharReadout, on a uint16_t
UpdateReadout(p, upOrDown, incAmount) ==
    IF upOrDown = "U" /\ p # 100
    THEN (IF p + incAmount > 100 THEN 100 ELSE U16(p + incAmount))
    ELSE IF upOrDown = "D" /\ p # 0
    THEN (IF U16(p - incAmount) > 100 THEN 0 ELSE U16(p - incAmount))
    ELSE p

\* one case of the New Board sketch's updateSensitivityReadout / updateMotionCharReadout,
\* on a uint8_t: one percent up or down
UpdateReadoutByOne(p, upOrDown) ==
    IF upOrDown = "U" /\ p # 100 THEN U8(p + 1)
    ELSE IF upOrDown = "D" /\ p # 0 THEN U8(p - 1)
    ELSE p

\* the address of the setting a row of a menu shows
SensitivityAddress(row) == row
MotionAddress(row) == RIGHT_SENS_ADDRESS + row

\* the percentages after the up/down button chain of loop()
TouchedPercent(p, tx, ty, inc) ==
    IF ty < L_BUTTON_C1_TOUCH_Y1 /\ ty > L_BUTTON_C1_TOUCH_Y2
    THEN (IF SensitivityRow(tx) # 0
          THEN [p EXCEPT ![SensitivityAddress(SensitivityRow(tx))] = UpdateReadout(@, "D", inc)]
          ELSE p)
    ELSE IF ty < L_BUTTON_C2_TOUCH_Y1 /\ ty > L_BUTTON_C2_TOUCH_Y2
    THEN (IF SensitivityRow(tx) # 0
          THEN [p EXCEPT ![SensitivityAddress(SensitivityRow(tx))] = UpdateReadout(@, "U", inc)]
          ELSE p)
    ELSE IF ty < R_BUTTON_C1_TOUCH_Y1 /\ ty > R_BUTTON_C1_TOUCH_Y2
    THEN (IF MotionRow(tx) # 0
          THEN [p EXCEPT ![MotionAddress(MotionRow(tx))] = UpdateReadout(@, "D", inc)]
          ELSE p)
    ELSE IF ty < R_BUTTON_C2_TOUCH_Y1 /\ ty > R_BUTTON_C2_TOUCH_Y2
    THEN (IF MotionRow(tx) # 0
          THEN [p EXCEPT ![MotionAddress(MotionRow(tx))] = UpdateReadout(@, "U", inc)]
          ELSE p)
    ELSE p

\* readoutIncrement after the increment selection buttons of loop()
TouchedIncrement(inc, tx, ty) ==
    IF tx > INC_BTNS_TOUCH_X1 /\ tx < INC_BTNS_TOUCH_X2
    THEN (IF ty < x1_TOUCH_Y1 /\ ty > x1_TOUCH_Y2 THEN 1
          ELSE IF ty < x5_TOUCH_Y1 /\ ty > x5_TOUCH_Y2 THEN 5
          ELSE IF ty < x10_TOUCH_Y1 /\ ty > x10_TOUCH_Y2 THEN 10
          ELSE inc)
    ELSE inc

\* the save values button was pressed
\* SavePressed taking every accepted touch for the save button
SavePressedAnywhere(tx, ty) == TRUE

SavePressed(tx, ty) ==
    /\ tx > SAVE_VAL_TOUCH_X1 /\ tx < SAVE_VAL_TOUCH_X2
    /\ ty < SAVE_VAL_TOUCH_Y1 /\ ty > SAVE_VAL_TOUCH_Y2

\* ClampPercent of a setup() that keeps the stored byte
ClampPercentOff(v) == v

\* "If any of the values read from the EEPROM were >100, set them to 100"
ClampPercent(v) == IF v > 100 THEN 100 ELSE v

\* setup(): "Convert EEPROM read values from percents to counts"
SetupDerived(p) ==
    << U16(map(p[FORWARD_SENS_ADDRESS], 0, 100, MAX_FORWARD_THRESH, MIN_FORWARD_THRESH)),
       U16(map(p[REVERSE_SENS_ADDRESS], 0, 100, MIN_REVERSE_THRESH, MAX_REVERSE_THRESH)),
       U16(map(p[LEFT_SENS_ADDRESS], 0, 100, MIN_LEFT_THRESH, MAX_LEFT_THRESH)),
       U16(map(p[RIGHT_SENS_ADDRESS], 0, 100, MAX_RIGHT_THRESH, MIN_RIGHT_THRESH)),
       U16(map(p[SPEED_LIMIT_ADDRESS], 0, 100, MIN_SPEED_LIMIT, MAX_SPEED_LIMIT)),
       I16(map(p[ACC_RATE_ADDRESS], 0, 100, MIN_INCREASE_RAMPING, MAX_INCREASE_RAMPING)),
       I16(map(p[DEC_RATE_ADDRESS], 0, 100, MIN_DECREASE_RAMPING, MAX_DECREASE_RAMPING)) >>

\* SaveDerived with the reverse threshold mapped into the range of the forward threshold
SaveDerivedCrossed(p) ==
    << U16(map(p[FORWARD_SENS_ADDRESS], 0, 100, MIN_FORWARD_THRESH, MAX_FORWARD_THRESH)),
       U16(map(p[REVERSE_SENS_ADDRESS], 0, 100, MIN_FORWARD_THRESH, MAX_FORWARD_THRESH)),
       U16(map(p[LEFT_SENS_ADDRESS], 0, 100, MIN_LEFT_THRESH, MAX_LEFT_THRESH)),
       U16(map(p[RIGHT_SENS_ADDRESS], 0, 100, MIN_RIGHT_THRESH, MAX_RIGHT_THRESH)),
       U16(map(p[SPEED_LIMIT_ADDRESS], 0, 100, MIN_SPEED_LIMIT, MAX_SPEED_LIMIT)),
       I16(map(p[ACC_RATE_ADDRESS], 0, 100, MIN_INCREASE_RAMPING, MAX_INCREASE_RAMPING)),
       I16(map(p[DEC_RATE_ADDRESS], 0, 100, MIN_DECREASE_RAMPING, MAX_DECREASE_RAMPING)) >>

\* loop(), save button: "Updates motion charateristics from EEPROM values"
SaveDerived(p) ==
    << U16(map(p[FORWARD_SENS_ADDRESS], 0, 100, MIN_FORWARD_THRESH, MAX_FORWARD_THRESH)),
       U16(map(p[REVERSE_SENS_ADDRESS], 0, 100, MIN_REVERSE_THRESH, MAX_REVERSE_THRESH)),
       U16(map(p[LEFT_SENS_ADDRESS], 0, 100, MIN_LEFT_THRESH, MAX_LEFT_THRESH)),
       U16(map(p[RIGHT_SENS_ADDRESS], 0, 100, MIN_RIGHT_THRESH, MAX_RIGHT_THRESH)),
       U16(map(p[SPEED_LIMIT_ADDRESS], 0, 100, MIN_SPEED_LIMIT, MAX_SPEED_LIMIT)),
       I16(map(p[ACC_RATE_ADDRESS], 0, 100, MIN_INCREASE_RAMPING, MAX_INCREASE_RAMPING)),
       I16(map(p[DEC_RATE_ADDRESS], 0, 100, MIN_DECREASE_RAMPING, MAX_DECREASE_RAMPING)) >>

\* setup(), USE_LCD false: "Set motion characteristics to default values"
DefaultDerived ==
    << DEFAULT_FORWARD_THRESH, DEFAULT_REVERSE_THRESH, DEFAULT_LEFT_THRESH,
       DEFAULT_RIGHT_THRESH, DEFAULT_SPEED_LIMIT, DEFAULT_INCREASE_RAMPING,
       DEFAULT_DECREASE_RAMPING >>

\* the New Board sketch drives with its constants
NewBoardDerived ==
    << FORWARD_THRESH, REVERSE_THRESH, LEFT_THRESH, RIGHT_THRESH, SPEED_LIMIT,
       INCREASE_RAMPING, DECREASE_RAMPING >>


(***************************************************************************)
(* Bounds of the model.                                                    *)
(***************************************************************************)
\* the joystick changes the targets at most MaxChanges times in a run
MaxChanges == 2

\* millis() values the interrupt handler may record: on the edge of the debounce
\* window that follows start-up, and just past it
Stamps == { CONSECUTIVE_TOUCH_DELAY, CONSECUTIVE_TOUCH_DELAY + 1 }

\* EEPROM contents at power-up: unwritten storage, and two saved tunings that accelerate
\* faster than they decelerate (accRate 30 with decRate 12, and with decRate 20)
EepromImages ==
    { <<255, 255, 255, 255, 255, 255, 255>>,
      <<50, 50, 50, 50, 20, 100, 40>>,
      <<50, 50, 50, 50, 20, 100, 66>> }

\* trims compiled in: the values of the source, and all four at zero
Trims ==
    { [fwdLeft |-> 0, revLeft |-> 0, fwdRight |-> 4, revRight |-> 0],
      [fwdLeft |-> 0, revLeft |-> 0, fwdRight |-> 0, revRight |-> 0] }

\* touch points: the decrease buttons of forward sensitivity and of the speed limit,
\* the x10 increment button, the save button, and a point outside every button
TouchPoints ==
    { <<1150, 3760>>, <<1150, 1885>>, <<2950, 2600>>, <<3400, 3000>>, <<100, 100>> }

\* analog readings tried on an axis: the ends, the centre, and around each threshold
RawReadings(negThresh, posThresh) ==
    { 0, 512, 1023, negThresh - 1, negThresh, posThresh, posThresh + 1 } \cap (0..1023)

\* the levels an axis can be classified to from two reads of RawReadings
AxisLevels(negThresh, posThresh) ==
    { AxisLevel(a, b, posThresh, negThresh) :
        a \in RawReadings(negThresh, posThresh), b \in RawReadings(negThresh, posThresh) }

(***************************************************************************)
(* History of the motor outputs.                                           *)
(***************************************************************************)
Side(speed) ==
    IF speed > NEUTRAL_SPEED THEN "fwd" ELSE IF speed < NEUTRAL_SPEED THEN "rev" ELSE "neutral"

Opposite(a, b) ==
    \/ a > NEUTRAL_SPEED /\ b < NEUTRAL_SPEED
    \/ a < NEUTRAL_SPEED /\ b > NEUTRAL_SPEED

Within(speed, d) == speed - NEUTRAL_SPEED <= d /\ NEUTRAL_SPEED - speed <= d

Seen(sides, speed) ==
    IF speed = NEUTRAL_SPEED THEN {}
    ELSE IF Within(speed, MAX_DECREASE_RAMPING) THEN sides \cup {Side(speed)}
    ELSE sides \cup {Side(speed), IF speed > NEUTRAL_SPEED THEN "farfwd" ELSE "farrev"}

FarSeen(sides, speed, stopped) ==
    IF stopped THEN {}
    ELSE IF Within(speed, MAX_DECREASE_RAMPING) THEN sides
    ELSE sides \cup {Side(speed)}

Idle == [n |-> 0, left |-> NEUTRAL_SPEED, right |-> NEUTRAL_SPEED, dec |-> 1]

(***************************************************************************)
(* Initial state: the globals as the sketch initialises them, before       *)
(* setup() runs.                                                           *)
(***************************************************************************)
NoTrim == [fwdLeft |-> 0, revLeft |-> 0, fwdRight |-> 0, revRight |-> 0]

Unwritten == <<255, 255, 255, 255, 255, 255, 255>>

\* the globals that every specification starts from
Globals ==
    /\ percent = <<0, 0, 0, 0, 0, 0, 0>>
    /\ readoutIncrement = 1
    /\ timePressed = 0 /\ prevTimePressed = 0
    /\ moveValue = 0 /\ rotateValue = 0
    /\ prevLeftMotorSpeed = 0 /\ prevRightMotorSpeed = 0
    /\ nextLeftSpeed = 0 /\ nextRightSpeed = 0
    /\ leftMotorPulse = 0 /\ rightMotorPulse = 0
    /\ crossed = [left |-> {}, right |-> {}]
    /\ far = [left |-> {}, right |-> {}]
    /\ changes = 0
    /\ rampCount = [left |-> 0, right |-> 0]

Init ==
    /\ \/ /\ sketch = "LCD"
          /\ eeprom \in EepromImages
          /\ trim \in Trims
       \/ /\ sketch = "Default"
          /\ eeprom = Unwritten
          /\ trim \in Trims
       \/ /\ sketch = "NewBoard"
          /\ eeprom = Unwritten
          /\ trim = NoTrim
    /\ pc = "setup"
    /\ forwardThresh = 0 /\ reverseThresh = 0 /\ leftThresh = 0 /\ rightThresh = 0
    /\ speedLimit = 0 /\ accRate = 0 /\ decRate = 0
    /\ prevLeft = NEUTRAL_SPEED /\ prevRight = NEUTRAL_SPEED
    /\ directionChanged = FALSE
    /\ leftResetComplete = TRUE /\ rightResetComplete = TRUE
    /\ resetCount = Idle
    /\ raw = [xP |-> 0, xN |-> 0, yP |-> 0, yN |-> 0]
    /\ classified = [x |-> 0, y |-> 0]
    /\ debug = DEBUG
    /\ stamps = Stamps
    /\ Globals

\* assignment of the seven motion characteristics from a tuple in the order of derived
SetDerived(d) ==
    /\ forwardThresh' = d[1]
    /\ reverseThresh' = d[2]
    /\ leftThresh' = d[3]
    /\ rightThresh' = d[4]
    /\ speedLimit' = d[5]
    /\ accRate' = d[6]
    /\ decRate' = d[7]

(***************************************************************************)
(* setup()                                                                 *)
(***************************************************************************)
SetupLCD ==
    /\ pc = "setup" /\ sketch = "LCD"
    /\ percent' = [a \in 1..7 |-> ClampPercent(eeprom[a])]
    /\ SetDerived(SetupDerived(percent'))
    \* "Wait for touchscreen to connect": if (!touch.begin()) while (1) delay(10);
    /\ \E began \in BOOLEAN : pc' = IF began THEN "loop" ELSE "halt"
    /\ UNCHANGED <<sketch, debug, stamps, eeprom, readoutIncrement, trim, touchTimes, targets, interlock,
                   motors, resetCount, changes, rampCount, samples>>

SetupDefault ==
    /\ pc = "setup" /\ sketch = "Default"
    /\ SetDerived(DefaultDerived)
    /\ pc' = "loop"
    /\ UNCHANGED <<sketch, debug, stamps, eeprom, settings, trim, touchTimes, targets, interlock,
                   motors, resetCount, changes, rampCount, samples>>

SetupNewBoard ==
    /\ pc = "setup" /\ sketch = "NewBoard"
    /\ SetDerived(NewBoardDerived)
    /\ pc' = "loop"
    /\ UNCHANGED <<sketch, debug, stamps, eeprom, settings, trim, touchTimes, targets, interlock,
                   motors, resetCount, changes, rampCount, samples>>

(***************************************************************************)
(* touchDetected(): the interrupt handler, at any point after setup        *)
(* attached it. Only the LCD build has the touch screen wired.             *)
(***************************************************************************)
touchDetected ==
    /\ sketch = "LCD" /\ pc # "setup"
    /\ \E t \in stamps : t > timePressed /\ timePressed' = t
    /\ UNCHANGED <<sketch, debug, stamps, pc, eeprom, settings, derived, trim, prevTimePressed, targets,
                   interlock, motors, resetCount, changes, rampCount, samples>>

(***************************************************************************)
(* loop(), first part: touchscreen interaction                             *)
(***************************************************************************)
\* a value assembled from the low k bytes of a and the remaining bytes of b
Mix(a, b, k) == (a % (256 ^ k)) + (b - (b % (256 ^ k)))

\* timePressed is an unsigned long shared with the interrupt handler, neither volatile nor
\* read with interrupts off: the main program loads its four bytes one after the other and
\* the handler may store a new value between two of the loads. Loads gives what one read
\* can see and what timePressed holds afterwards. An interrupt before or after all four
\* loads is a step of touchDetected; here are the reads it tears.
Loads(cur, due) ==
    { [seen |-> cur, now |-> cur] }
    \cup UNION { { [seen |-> m, now |-> t] :
                     m \in { Mix(cur, t, 1), Mix(cur, t, 2), Mix(cur, t, 3),
                             Mix(t, cur, 1), Mix(t, cur, 2), Mix(t, cur, 3) } \ { cur, t } } :
                 t \in { d \in due : d > cur } }

LoopTouch ==
    /\ pc = "loop"
    /\ sketch = "LCD"
    /\ \E test \in Loads(timePressed, stamps) :
          /\ test.seen > prevTimePressed + CONSECUTIVE_TOUCH_DELAY
          /\ \E store \in Loads(test.now, stamps) :
                /\ prevTimePressed' = store.seen
                /\ timePressed' = store.now
    /\ \E pt \in TouchPoints :
          LET tx == pt[1]
              ty == pt[2]
          IN  /\ percent' = TouchedPercent(percent, tx, ty, readoutIncrement)
              /\ readoutIncrement' = TouchedIncrement(readoutIncrement, tx, ty)
              /\ IF SavePressed(tx, ty) /\ ALLOW_EEPROM_WRITES
                 THEN /\ eeprom' = [a \in 1..7 |-> U8(percent'[a])]
                      /\ SetDerived(SaveDerived(percent'))
                 ELSE UNCHANGED <<eeprom, derived>>
    /\ pc' = "joystick"
    /\ UNCHANGED <<sketch, debug, stamps, trim, targets, interlock, motors, resetCount, changes,
                   rampCount, samples>>

\* LoopNoTouch of a setup() that returns when touch.begin() fails
LoopNoTouchFromHalt ==
    /\ pc \in {"loop", "halt"}
    /\ IF sketch = "LCD"
       THEN \E test \in Loads(timePressed, stamps) :
               /\ ~(test.seen > prevTimePressed + CONSECUTIVE_TOUCH_DELAY)
               /\ timePressed' = test.now
       ELSE timePressed' = timePressed
    /\ pc' = "joystick"
    /\ UNCHANGED <<sketch, debug, stamps, eeprom, settings, derived, trim, prevTimePressed, targets,
                   interlock, motors, resetCount, changes, rampCount, samples>>

LoopNoTouch ==
    /\ pc = "loop"
    /\ IF sketch = "LCD"
       THEN \E test \in Loads(timePressed, stamps) :
               /\ ~(test.seen > prevTimePressed + CONSECUTIVE_TOUCH_DELAY)
               /\ timePressed' = test.now
       ELSE timePressed' = timePressed
    /\ pc' = "joystick"
    /\ UNCHANGED <<sketch, debug, stamps, eeprom, settings, derived, trim, prevTimePressed, targets,
                   interlock, motors, resetCount, changes, rampCount, samples>>

\* TargetChanged comparing the directions only
TargetChangedSign(left, right, prevL, prevR) ==
    \/ (I16(left) > 0) # (I16(prevL) > 0) \/ (I16(left) < 0) # (I16(prevL) < 0)
    \/ (I16(right) > 0) # (I16(prevR) > 0) \/ (I16(right) < 0) # (I16(prevR) < 0)

\* "Find out if a direction change occured"
TargetChanged(left, right, prevL, prevR) == left # prevL \/ right # prevR

\* AfterResetIteration of a loop written as "if (directionChanged)"
AfterResetIterationOnce(bothComplete) == "ramp"

\* while (directionChanged): where the program goes after an iteration
AfterResetIteration(bothComplete) == IF bothComplete THEN "ramp" ELSE "resync"

(***************************************************************************)
(* getJoystickInputs() and setLeftRightMotorSpeeds(), up to the call of    *)
(* drive(): read the joystick, compute the targets, detect a change.       *)
(***************************************************************************)
GetJoystickInputs ==
    /\ pc = "joystick"
    /\ \E x \in AxisLevels(leftThresh, rightThresh), y \in AxisLevels(reverseThresh, forwardThresh) :
          LET move  == MoveValue(y, speedLimit)
              rot   == RotateValue(sketch, x, speedLimit)
              left  == LeftMotorSpeed(sketch, move, rot, trim)
              right == RightMotorSpeed(sketch, move, rot, trim)
              changed == TargetChanged(left, right, prevLeftMotorSpeed, prevRightMotorSpeed)
          IN  /\ changed => changes < MaxChanges
              /\ changes' = IF changed THEN changes + 1 ELSE changes
              /\ rampCount' = IF changed THEN [left |-> 0, right |-> 0] ELSE rampCount
              /\ moveValue' = move
              /\ rotateValue' = rot
              /\ directionChanged' = (changed \/ directionChanged)
              /\ leftResetComplete' = (~changed /\ leftResetComplete)
              /\ rightResetComplete' = (~changed /\ rightResetComplete)
              /\ prevLeftMotorSpeed' = left
              /\ prevRightMotorSpeed' = right
              /\ nextLeftSpeed' = NextSpeed(sketch, left)
              /\ nextRightSpeed' = NextSpeed(sketch, right)
    /\ pc' = IF directionChanged' THEN "resync" ELSE "ramp"
    /\ resetCount' = [n |-> 0, left |-> prevLeft, right |-> prevRight, dec |-> decRate]
    /\ UNCHANGED <<sketch, debug, stamps, eeprom, settings, derived, trim, touchTimes, motors, samples>>

\* ResetMotorSpeeds reading the joystick anew in every iteration of its loop
ResetMotorSpeedsSampling ==
    /\ pc = "resync"
    /\ LET leftResetSpeed  == ResetSpeed(U16(prevLeft), decRate)
           rightResetSpeed == ResetSpeed(U16(prevRight), decRate)
           leftDone  == leftResetComplete \/ ResetComplete(U16(prevLeft), decRate)
           rightDone == rightResetComplete \/ ResetComplete(U16(prevRight), decRate)
       IN  /\ leftMotorPulse' = Sent(debug, leftMotorPulse, U16(MotorPulse(InvertLeft(sketch), leftResetSpeed)))
           /\ rightMotorPulse' = Sent(debug, rightMotorPulse, U16(MotorPulse(InvertRight(sketch), rightResetSpeed)))
           /\ prevLeft' = I16(leftResetSpeed)
           /\ prevRight' = I16(rightResetSpeed)
           /\ leftResetComplete' = leftDone
           /\ rightResetComplete' = rightDone
           /\ directionChanged' = ~(leftDone /\ rightDone)
           /\ pc' = AfterResetIteration(leftDone /\ rightDone)
           /\ crossed' = [left  |-> Seen(crossed.left, prevLeft'),
                          right |-> Seen(crossed.right, prevRight')]
           /\ far' = [left  |-> FarSeen(far.left, prevLeft', Within(prevLeft', decRate)),
                      right |-> FarSeen(far.right, prevRight', Within(prevRight', decRate))]
    /\ resetCount' = [resetCount EXCEPT !.n = @ + 1]
    /\ \E x \in AxisLevels(leftThresh, rightThresh), y \in AxisLevels(reverseThresh, forwardThresh) :
          LET move  == MoveValue(y, speedLimit)
              rot   == RotateValue(sketch, x, speedLimit)
              left  == LeftMotorSpeed(sketch, move, rot, trim)
              right == RightMotorSpeed(sketch, move, rot, trim)
          IN  /\ moveValue' = move
              /\ rotateValue' = rot
              /\ prevLeftMotorSpeed' = left
              /\ prevRightMotorSpeed' = right
              /\ nextLeftSpeed' = NextSpeed(sketch, left)
              /\ nextRightSpeed' = NextSpeed(sketch, right)
    /\ UNCHANGED <<sketch, debug, stamps, eeprom, settings, derived, trim, touchTimes, changes, rampCount, samples>>

(***************************************************************************)
(* resetMotorSpeeds(): one iteration of its while loop                     *)
(***************************************************************************)
ResetMotorSpeeds ==
    /\ pc = "resync"
    /\ LET leftResetSpeed  == ResetSpeed(U16(prevLeft), decRate)
           rightResetSpeed == ResetSpeed(U16(prevRight), decRate)
           leftDone  == leftResetComplete \/ ResetComplete(U16(prevLeft), decRate)
           rightDone == rightResetComplete \/ ResetComplete(U16(prevRight), decRate)
       IN  /\ leftMotorPulse' = Sent(debug, leftMotorPulse, U16(MotorPulse(InvertLeft(sketch), leftResetSpeed)))
           /\ rightMotorPulse' = Sent(debug, rightMotorPulse, U16(MotorPulse(InvertRight(sketch), rightResetSpeed)))
           /\ prevLeft' = I16(leftResetSpeed)
           /\ prevRight' = I16(rightResetSpeed)
           /\ leftResetComplete' = leftDone
           /\ rightResetComplete' = rightDone
           /\ directionChanged' = ~(leftDone /\ rightDone)
           /\ pc' = AfterResetIteration(leftDone /\ rightDone)
           /\ crossed' = [left  |-> Seen(crossed.left, prevLeft'),
                          right |-> Seen(crossed.right, prevRight')]
           /\ far' = [left  |-> FarSeen(far.left, prevLeft', Within(prevLeft', decRate)),
                      right |-> FarSeen(far.right, prevRight', Within(prevRight', decRate))]
    /\ resetCount' = [resetCount EXCEPT !.n = @ + 1]
    /\ UNCHANGED <<sketch, debug, stamps, eeprom, settings, derived, trim, touchTimes, targets, changes, rampCount, samples>>

(***************************************************************************)
(* drive(), after the resynchronisation: ramp towards the targets          *)
(***************************************************************************)
Drive ==
    /\ pc = "ramp"
    /\ LET leftDriveSpeed  == RampLeft(sketch, DriveTarget(sketch, nextLeftSpeed), prevLeft, accRate)
           rightDriveSpeed == RampRight(sketch, DriveTarget(sketch, nextRightSpeed), prevRight, accRate)
       IN  /\ leftMotorPulse' = Sent(debug, leftMotorPulse, U16(MotorPulse(InvertLeft(sketch), leftDriveSpeed)))
           /\ rightMotorPulse' = Sent(debug, rightMotorPulse, U16(MotorPulse(InvertRight(sketch), rightDriveSpeed)))
           /\ prevLeft' = I16(leftDriveSpeed)
           /\ prevRight' = I16(rightDriveSpeed)
           /\ crossed' = [left  |-> Seen(crossed.left, prevLeft'),
                          right |-> Seen(crossed.right, prevRight')]
           /\ far' = [left  |-> FarSeen(far.left, prevLeft', FALSE),
                      right |-> FarSeen(far.right, prevRight', FALSE)]
    /\ rampCount' =
          [left  |-> IF prevLeft # DriveTarget(sketch, nextLeftSpeed)
                     THEN rampCount.left + 1 ELSE rampCount.left,
           right |-> IF prevRight # DriveTarget(sketch, nextRightSpeed)
                     THEN rampCount.right + 1 ELSE rampCount.right]
    /\ pc' = "loop"
    /\ resetCount' = Idle
    /\ UNCHANGED <<sketch, debug, stamps, eeprom, settings, derived, trim, touchTimes, targets, interlock,
                   changes, samples>>

Next ==
    \/ SetupLCD
    \/ SetupDefault
    \/ SetupNewBoard
    \/ touchDetected
    \/ LoopTouch
    \/ LoopNoTouch
    \/ GetJoystickInputs
    \/ ResetMotorSpeeds
    \/ Drive

Spec == Init /\ [][Next]_vars

(***************************************************************************)
(* The program running for ever: the three builds started with unwritten   *)
(* storage, the screen never touched. Once started the main program keeps  *)
(* running, setup() and then loop() again and again.                       *)
(***************************************************************************)
InitLive ==
    /\ \/ /\ sketch \in {"LCD", "Default"}
          /\ trim \in Trims
       \/ /\ sketch = "NewBoard"
          /\ trim = NoTrim
    /\ eeprom = Unwritten
    /\ debug = DEBUG
    /\ stamps = {}
    /\ pc = "setup"
    /\ forwardThresh = 0 /\ reverseThresh = 0 /\ leftThresh = 0 /\ rightThresh = 0
    /\ speedLimit = 0 /\ accRate = 0 /\ decRate = 0
    /\ prevLeft = NEUTRAL_SPEED /\ prevRight = NEUTRAL_SPEED
    /\ directionChanged = FALSE
    /\ leftResetComplete = TRUE /\ rightResetComplete = TRUE
    /\ resetCount = Idle
    /\ raw = [xP |-> 0, xN |-> 0, yP |-> 0, yN |-> 0]
    /\ classified = [x |-> 0, y |-> 0]
    /\ Globals

NextLive ==
    \/ SetupLCD
    \/ SetupDefault
    \/ SetupNewBoard
    \/ LoopNoTouch
    \/ GetJoystickInputs
    \/ ResetMotorSpeeds
    \/ Drive

SpecLive == InitLive /\ [][NextLive]_vars /\ WF_vars(NextLive)

(***************************************************************************)
(* The classifier on its own: the first lines of getJoystickInputs(), for  *)
(* readings and thresholds drawn from the values below.                    *)
(***************************************************************************)
\* sensitivity percentages the thresholds are derived from
ClassifyPercents == {0, 100}

\* readings tried on an axis: around each threshold, and the readings 300, 500, 700
ClassifyReadings(negThresh, posThresh) ==
    { negThresh - 1, negThresh, posThresh, posThresh + 1, 300, 500, 700 } \cap (0..1023)

DerivedIs(d) ==
    /\ forwardThresh = d[1]
    /\ reverseThresh = d[2]
    /\ leftThresh = d[3]
    /\ rightThresh = d[4]
    /\ speedLimit = d[5]
    /\ accRate = d[6]
    /\ decRate = d[7]

InitClassify ==
    /\ \/ /\ sketch = "LCD"
          /\ \E f, r, l, rt \in ClassifyPercents :
                DerivedIs(SetupDerived(<<f, r, l, rt, 100, 100, 100>>))
       \/ /\ sketch = "Default"
          /\ DerivedIs(DefaultDerived)
       \/ /\ sketch = "NewBoard"
          /\ DerivedIs(NewBoardDerived)
    /\ eeprom = Unwritten
    /\ trim = NoTrim
    /\ pc = "sample"
    /\ prevLeft = NEUTRAL_SPEED /\ prevRight = NEUTRAL_SPEED
    /\ directionChanged = FALSE
    /\ leftResetComplete = TRUE /\ rightResetComplete = TRUE
    /\ resetCount = Idle
    /\ raw = [xP |-> 0, xN |-> 0, yP |-> 0, yN |-> 0]
    /\ classified = [x |-> 0, y |-> 0]
    /\ debug = DEBUG
    /\ stamps = Stamps
    /\ Globals

\* the four analogRead() calls of a cycle and the levels x and y set from them
Classify ==
    /\ pc = "sample"
    /\ \E xP, xN \in ClassifyReadings(leftThresh, rightThresh),
          yP, yN \in ClassifyReadings(reverseThresh, forwardThresh) :
          /\ raw' = [xP |-> xP, xN |-> xN, yP |-> yP, yN |-> yN]
          /\ classified' = [x |-> AxisLevel(xP, xN, rightThresh, leftThresh),
                            y |-> AxisLevel(yP, yN, forwardThresh, reverseThresh)]
    /\ pc' = "sampled"
    /\ UNCHANGED <<sketch, debug, stamps, eeprom, settings, derived, trim, touchTimes, targets, interlock,
                   motors, resetCount, changes, rampCount>>

NextClassify == Classify

SpecClassify == InitClassify /\ [][NextClassify]_vars

(***************************************************************************)
(* The resync loop on its own: resetMotorSpeeds() entered with a direction *)
(* change pending, from every pair of start speeds drawn from ResyncStarts *)
(***************************************************************************)
ResyncStarts == {0, 1, 250, 469, 470, 499, 500, 501, 530, 531, 750, 1000}

\* every decRate a percentage setting can be mapped to
ResyncRates == MIN_DECREASE_RAMPING..MAX_DECREASE_RAMPING

InitResync ==
    /\ \/ /\ sketch = "LCD"
          /\ \E d \in ResyncRates :
                DerivedIs([SetupDerived(<<100, 100, 100, 100, 100, 100, 100>>) EXCEPT ![7] = d])
       \/ /\ sketch = "NewBoard"
          /\ DerivedIs(NewBoardDerived)
    /\ eeprom = Unwritten
    /\ trim = NoTrim
    /\ pc = "resync"
    /\ prevLeft \in ResyncStarts /\ prevRight \in ResyncStarts
    /\ directionChanged = TRUE
    /\ leftResetComplete = FALSE /\ rightResetComplete = FALSE
    /\ resetCount = [n |-> 0, left |-> prevLeft, right |-> prevRight, dec |-> decRate]
    /\ raw = [xP |-> 0, xN |-> 0, yP |-> 0, yN |-> 0]
    /\ classified = [x |-> 0, y |-> 0]
    /\ debug = DEBUG
    /\ stamps = Stamps
    /\ Globals

NextResync == ResetMotorSpeeds

SpecResync == InitResync /\ [][NextResync]_vars

(***************************************************************************)
(* The target speed calculator on its own: setup() of the LCD build and    *)
(* the first call of getJoystickInputs(), for every speed limit percentage *)
(* and for trims drawn from TargetTrims.                                   *)
(***************************************************************************)
\* trims: the values of the source, and each trim at 0 or at the largest uint8_t
TargetTrims ==
    Trims \cup [fwdLeft : {0, 255}, revLeft : {0, 255}, fwdRight : {0, 255}, revRight : {0, 255}]

\* stored settings: every speed limit percentage, the other settings at 50 %
TargetImages == { <<50, 50, 50, 50, s, 50, 50>> : s \in 0..100 }

\* the LCD build at power-up, before setup() runs
InitTargets ==
    /\ sketch = "LCD"
    /\ eeprom \in TargetImages
    /\ trim \in TargetTrims
    /\ pc = "setup"
    /\ DerivedIs(<<0, 0, 0, 0, 0, 0, 0>>)
    /\ prevLeft = NEUTRAL_SPEED /\ prevRight = NEUTRAL_SPEED
    /\ directionChanged = FALSE
    /\ leftResetComplete = TRUE /\ rightResetComplete = TRUE
    /\ resetCount = Idle
    /\ raw = [xP |-> 0, xN |-> 0, yP |-> 0, yN |-> 0]
    /\ classified = [x |-> 0, y |-> 0]
    /\ debug = DEBUG
    /\ stamps = Stamps
    /\ Globals

NextTargets ==
    \/ SetupLCD
    \/ LoopNoTouch
    \/ GetJoystickInputs

SpecTargets == InitTargets /\ [][NextTargets]_vars

(***************************************************************************)
(* Configuration on its own: setup() of every build and the touch menu of  *)
(* the LCD build, for stored settings drawn from ConfigImages. The build   *)
(* "NewBoardLCD" is the New Board sketch compiled with USE_LCD = true; of  *)
(* that build only setup() and a pass of loop() without a touch are run.   *)
(***************************************************************************)
\* stored bytes tried for a sensitivity: every tenth percentage, the ends and their
\* neighbours, and the byte of unwritten storage
SensBytes == { 0, 1, 99, 100, 101, 255 } \cup { 10 * k : k \in 1..9 }

\* stored bytes tried for a rate: every percentage, and bytes above 100
RateBytes == 0..101 \cup { 255 }

ConfigImages ==
    { <<f, r, 50, 50, 50, 50, 50>> : f \in SensBytes, r \in SensBytes }
    \cup { <<50, 50, l, rt, 50, 50, 50>> : l \in SensBytes, rt \in SensBytes }
    \cup { <<20, 20, 20, 20, s, a, d>> : s \in {0, 100}, a \in RateBytes, d \in {0, 100, 255} }
    \cup { <<20, 20, 20, 20, s, a, d>> : s \in {0, 100}, a \in {0, 100, 255}, d \in RateBytes }

InitConfig ==
    /\ \/ /\ sketch = "LCD"
          /\ eeprom \in ConfigImages
          /\ trim \in Trims
       \/ /\ sketch = "Default"
          /\ eeprom = Unwritten
          /\ trim \in Trims
       \/ /\ sketch = "NewBoard"
          /\ eeprom = Unwritten
          /\ trim = NoTrim
       \/ /\ sketch = "NewBoardLCD"
          /\ eeprom \in { Unwritten, <<50, 50, 50, 50, 50, 50, 50>> }
          /\ trim = NoTrim
    /\ pc = "setup"
    /\ DerivedIs(<<0, 0, 0, 0, 0, 0, 0>>)
    /\ prevLeft = NEUTRAL_SPEED /\ prevRight = NEUTRAL_SPEED
    /\ directionChanged = FALSE
    /\ leftResetComplete = TRUE /\ rightResetComplete = TRUE
    /\ resetCount = Idle
    /\ raw = [xP |-> 0, xN |-> 0, yP |-> 0, yN |-> 0]
    /\ classified = [x |-> 0, y |-> 0]
    /\ debug = DEBUG
    /\ stamps = Stamps
    /\ Globals

\* setup() of the New Board sketch with USE_LCD = true: the stored bytes are read into
\* variables declared inside the if block, which hide the globals of the same names;
\* the clamp and the first drawing of the menu use those locals, the globals keep their
\* initial value, and the sketch drives with its constants
SetupNewBoardLCD ==
    /\ pc = "setup" /\ sketch = "NewBoardLCD"
    /\ LET local == [a \in 1..7 |-> ClampPercent(eeprom[a])]
       IN  percent' = percent
    /\ SetDerived(NewBoardDerived)
    /\ \E began \in BOOLEAN : pc' = IF began THEN "loop" ELSE "halt"
    /\ UNCHANGED <<sketch, debug, stamps, eeprom, readoutIncrement, trim, touchTimes, targets, interlock,
                   motors, resetCount, changes, rampCount, samples>>

NextConfig ==
    \/ SetupLCD
    \/ SetupDefault
    \/ SetupNewBoard
    \/ SetupNewBoardLCD
    \/ touchDetected
    \/ LoopTouch
    \/ LoopNoTouch

SpecConfig == InitConfig /\ [][NextConfig]_vars

(***************************************************************************)
(* The builds with DEBUG = true ("enable debug Over Serial"): the whole    *)
(* program, started with unwritten storage.                                *)
(***************************************************************************)
InitDebug ==
    /\ \/ /\ sketch \in {"LCD", "Default"}
          /\ trim \in Trims
       \/ /\ sketch = "NewBoard"
          /\ trim = NoTrim
    /\ eeprom = Unwritten
    /\ debug = TRUE
    /\ stamps = Stamps
    /\ pc = "setup"
    /\ DerivedIs(<<0, 0, 0, 0, 0, 0, 0>>)
    /\ prevLeft = NEUTRAL_SPEED /\ prevRight = NEUTRAL_SPEED
    /\ directionChanged = FALSE
    /\ leftResetComplete = TRUE /\ rightResetComplete = TRUE
    /\ resetCount = Idle
    /\ raw = [xP |-> 0, xN |-> 0, yP |-> 0, yN |-> 0]
    /\ classified = [x |-> 0, y |-> 0]
    /\ Globals

SpecDebug == InitDebug /\ [][Next]_vars

(***************************************************************************)
(* The LCD build with two touches 40 ms apart, at 250 ms and at 290 ms,    *)
(* where the second changes two bytes of timePressed.                      *)
(***************************************************************************)
CloseStamps == { 250, 290 }

InitClose ==
    /\ sketch = "LCD"
    /\ eeprom = Unwritten
    /\ trim = NoTrim
    /\ debug = DEBUG
    /\ stamps = CloseStamps
    /\ pc = "setup"
    /\ DerivedIs(<<0, 0, 0, 0, 0, 0, 0>>)
    /\ prevLeft = NEUTRAL_SPEED /\ prevRight = NEUTRAL_SPEED
    /\ directionChanged = FALSE
    /\ leftResetComplete = TRUE /\ rightResetComplete = TRUE
    /\ resetCount = Idle
    /\ raw = [xP |-> 0, xN |-> 0, yP |-> 0, yN |-> 0]
    /\ classified = [x |-> 0, y |-> 0]
    /\ percent = <<0, 0, 0, 0, 0, 0, 0>>
    /\ readoutIncrement = 1
    /\ timePressed = 0 /\ prevTimePressed = 0
    /\ moveValue = 0 /\ rotateValue = 0
    /\ prevLeftMotorSpeed = 0 /\ prevRightMotorSpeed = 0
    /\ nextLeftSpeed = 0 /\ nextRightSpeed = 0
    /\ leftMotorPulse = 0 /\ rightMotorPulse = 0
    /\ crossed = [left |-> {}, right |-> {}]
    /\ far = [left |-> {}, right |-> {}]
    \* the joystick is moved once in these runs and then held
    /\ changes = MaxChanges - 1
    /\ rampCount = [left |-> 0, right |-> 0]

NextClose ==
    \/ SetupLCD
    \/ touchDetected
    \/ LoopTouch
    \/ LoopNoTouch
    \/ GetJoystickInputs
    \/ ResetMotorSpeeds
    \/ Drive

SpecClose == InitClose /\ [][NextClose]_vars

(***************************************************************************)
(* The up/down buttons as functions of the percentages: the loop stands    *)
(* before a call of updateSensitivityReadout or updateMotionCharReadout    *)
(* with one setting at any percentage, the others at one of three, and any *)
(* of the increments selected. eeprom holds the percentages before the     *)
(* call: nothing is saved in these runs.                                   *)
(***************************************************************************)
ReadoutPercents ==
    { [a \in 1..7 |-> IF a = r THEN p ELSE q] : r \in 1..7, p \in 0..100, q \in {0, 50, 100} }

ReadoutIncrements == {1, 5, 10}

InitReadout ==
    /\ \/ /\ sketch = "LCD"
          /\ readoutIncrement \in ReadoutIncrements
       \/ /\ sketch = "NewBoardLCD"
          /\ readoutIncrement = 1
    /\ percent \in ReadoutPercents
    /\ eeprom = percent
    /\ DerivedIs(SetupDerived(percent))
    /\ trim = NoTrim
    /\ debug = DEBUG
    /\ stamps = {}
    /\ pc = "loop"
    /\ prevLeft = NEUTRAL_SPEED /\ prevRight = NEUTRAL_SPEED
    /\ directionChanged = FALSE
    /\ leftResetComplete = TRUE /\ rightResetComplete = TRUE
    /\ resetCount = Idle
    /\ raw = [xP |-> 0, xN |-> 0, yP |-> 0, yN |-> 0]
    /\ classified = [x |-> 0, y |-> 0]
    /\ timePressed = 0 /\ prevTimePressed = 0
    /\ moveValue = 0 /\ rotateValue = 0
    /\ prevLeftMotorSpeed = 0 /\ prevRightMotorSpeed = 0
    /\ nextLeftSpeed = 0 /\ nextRightSpeed = 0
    /\ leftMotorPulse = 0 /\ rightMotorPulse = 0
    /\ crossed = [left |-> {}, right |-> {}]
    /\ far = [left |-> {}, right |-> {}]
    /\ changes = 0
    /\ rampCount = [left |-> 0, right |-> 0]

\* the setting at an address after a press of its up or down button
Readout(p, upOrDown) ==
    IF sketch = "LCD" THEN UpdateReadout(p, upOrDown, readoutIncrement)
    ELSE UpdateReadoutByOne(p, upOrDown)

updateSensitivityReadout ==
    /\ pc = "loop"
    /\ \E row \in 1..4, upOrDown \in {"U", "D"} :
          percent' = [percent EXCEPT ![SensitivityAddress(row)] = Readout(@, upOrDown)]
    /\ pc' = "joystick"
    /\ UNCHANGED <<sketch, debug, stamps, eeprom, readoutIncrement, derived, trim, touchTimes, targets,
                   interlock, motors, resetCount, changes, rampCount, samples>>

updateMotionCharReadout ==
    /\ pc = "loop"
    /\ \E row \in 1..3, upOrDown \in {"U", "D"} :
          percent' = [percent EXCEPT ![MotionAddress(row)] = Readout(@, upOrDown)]
    /\ pc' = "joystick"
    /\ UNCHANGED <<sketch, debug, stamps, eeprom, readoutIncrement, derived, trim, touchTimes, targets,
                   interlock, motors, resetCount, changes, rampCount, samples>>

NextReadout ==
    \/ updateSensitivityReadout
    \/ updateMotionCharReadout

SpecReadout == InitReadout /\ [][NextReadout]_vars

(***************************************************************************)
(* Properties.                                                             *)
(***************************************************************************)
Abs(v) == IF v < 0 THEN -v ELSE v

Max(a, b) == IF a > b THEN a ELSE b

CeilDiv(a, b) == (a + b - 1) \div b

\* a step that is one iteration of the resync loop
ResyncStep == pc = "resync" /\ resetCount'.n = resetCount.n + 1

\* a step that is the ramp of drive()
DriveStep == pc = "ramp" /\ pc' = "loop"

(* C1, for the left motor: a motor running on one side of neutral emits no  *)
(* output on the other side before the resync has driven it to neutral     *)
(* (signed speed 0): an output never lies on the side opposite to one where *)
(* the motor ran further than MAX_DECREASE_RAMPING from neutral since its   *)
(* last output of exactly NEUTRAL_SPEED.                                    *)
C1_CrossesOnlyFromNeutral ==
    /\ prevLeft > NEUTRAL_SPEED => "farrev" \notin crossed.left
    /\ prevLeft < NEUTRAL_SPEED => "farfwd" \notin crossed.left

(* What the resync loop does guarantee: an iteration changes a motor's     *)
(* output by at most decRate and never takes it to the other side of       *)
(* neutral; an output goes from one side of neutral to the other only in   *)
(* drive(), and only when the motor has emitted nothing further than       *)
(* MAX_DECREASE_RAMPING from neutral since a resync iteration left it      *)
(* within decRate of neutral (not necessarily at signed speed 0).          *)
ResyncBeforeCrossing ==
    [][/\ ResyncStep =>
            /\ Abs(prevLeft' - prevLeft) <= decRate
            /\ Abs(prevRight' - prevRight) <= decRate
            /\ ~Opposite(prevLeft, prevLeft')
            /\ ~Opposite(prevRight, prevRight')
       /\ DriveStep /\ Opposite(prevLeft, prevLeft') => far.left = {}
       /\ DriveStep /\ Opposite(prevRight, prevRight') => far.right = {}]_vars

\* the left motor is on the reverse side, was on the forward side since its last
\* output of exactly NEUTRAL_SPEED, and has been brought near neutral by a resync
CrossedAfterResync ==
    /\ pc = "loop" /\ changes >= 2
    /\ prevLeft < NEUTRAL_SPEED /\ "fwd" \in crossed.left /\ far.left = {}

(* C2: whenever two outputs of a motor lie on opposite sides of neutral,    *)
(* the motor's output was exactly NEUTRAL_SPEED in a cycle between them:   *)
(* an output never lies on the side opposite to one the motor was on since *)
(* its last output of exactly NEUTRAL_SPEED.                               *)
C2_ExactNeutralBetween ==
    /\ prevLeft > NEUTRAL_SPEED => "rev" \notin crossed.left
    /\ prevLeft < NEUTRAL_SPEED => "fwd" \notin crossed.left
    /\ prevRight > NEUTRAL_SPEED => "rev" \notin crossed.right
    /\ prevRight < NEUTRAL_SPEED => "fwd" \notin crossed.right

(* What holds in its place: whenever an output of a motor further than     *)
(* MAX_DECREASE_RAMPING from neutral is followed by an output of that      *)
(* motor on the other side of neutral, there is between them an iteration  *)
(* of the resync loop in which that motor's output was within decRate of   *)
(* neutral (not necessarily exactly 500).                                  *)
ResyncBetweenFarOutputs ==
    /\ prevLeft > NEUTRAL_SPEED => "rev" \notin far.left
    /\ prevLeft < NEUTRAL_SPEED => "fwd" \notin far.left
    /\ prevRight > NEUTRAL_SPEED => "rev" \notin far.right
    /\ prevRight < NEUTRAL_SPEED => "fwd" \notin far.right

\* the right motor is far on the reverse side after having been far on the forward
\* side, with no output of exactly NEUTRAL_SPEED in between
FarOnBothSides ==
    /\ prevRight < NEUTRAL_SPEED - MAX_DECREASE_RAMPING
    /\ "farfwd" \in crossed.right

(* C3: two consecutive speeds sent to the same motor differ by at most     *)
(* accRate when the second comes from drive() and by at most decRate when  *)
(* it comes from an iteration of the resync loop, for the left and the     *)
(* right motor alike.                                                      *)
C3_RateLimited ==
    [][/\ DriveStep =>
            /\ Abs(prevLeft' - prevLeft) <= accRate
            /\ Abs(prevRight' - prevRight) <= accRate
       /\ ResyncStep =>
            /\ Abs(prevLeft' - prevLeft) <= decRate
            /\ Abs(prevRight' - prevRight) <= decRate]_vars

(* C4: every pulse width written for either motor, by drive() and by every *)
(* iteration of the resync loop, lies in [REVERSE_PULSE, FORWARD_PULSE].   *)
C4_PulseRange ==
    [][(ResyncStep \/ DriveStep) =>
          /\ leftMotorPulse' \in REVERSE_PULSE..FORWARD_PULSE
          /\ rightMotorPulse' \in REVERSE_PULSE..FORWARD_PULSE]_vars

\* both motors of the LCD build at the longest pulse
C4_Witness ==
    /\ sketch = "LCD"
    /\ leftMotorPulse = FORWARD_PULSE /\ rightMotorPulse = FORWARD_PULSE

(* C5: in each control cycle the interlock enters RESYNCING                *)
(* (directionChanged set, both reset-complete flags cleared) if and only   *)
(* if the new left or right target differs from the one of the previous    *)
(* cycle, whatever the signs; and the stored previous target is replaced   *)
(* by the new target in every cycle.                                       *)
C5_ResyncOnChange ==
    [][pc = "joystick" /\ pc' # "joystick" =>
          /\ prevLeftMotorSpeed' = LeftMotorSpeed(sketch, moveValue', rotateValue', trim)
          /\ prevRightMotorSpeed' = RightMotorSpeed(sketch, moveValue', rotateValue', trim)
          /\ (prevLeftMotorSpeed' # prevLeftMotorSpeed \/ prevRightMotorSpeed' # prevRightMotorSpeed)
                <=> (directionChanged' /\ ~leftResetComplete' /\ ~rightResetComplete')
          /\ directionChanged' <=> pc' = "resync"]_vars

\* a cycle after the first ones has just entered RESYNCING for a turn
C5_Witness ==
    /\ pc = "resync" /\ resetCount.n = 0 /\ changes >= 2
    /\ directionChanged /\ ~leftResetComplete /\ ~rightResetComplete
    /\ moveValue = 0 /\ rotateValue < -3

(* C6: a resync episode ends (directionChanged cleared) only in an         *)
(* iteration in which both motors are within decRate of NEUTRAL_SPEED; a   *)
(* motor that arrived first is sent its unchanged speed again in every     *)
(* further iteration; and no target changes during the episode.            *)
C6_BothComplete ==
    [][ResyncStep =>
          /\ ~directionChanged' => Within(prevLeft', decRate) /\ Within(prevRight', decRate)
          /\ leftResetComplete =>
                prevLeft' = prevLeft /\ leftMotorPulse' = leftMotorPulse /\ leftResetComplete'
          /\ rightResetComplete =>
                prevRight' = prevRight /\ rightMotorPulse' = rightMotorPulse /\ rightResetComplete'
          /\ UNCHANGED targets]_vars

\* the left motor has arrived and holds its speed while the right one is still
\* being slowed down
C6_Witness ==
    /\ pc = "resync" /\ resetCount.n >= 2
    /\ leftResetComplete /\ ~rightResetComplete
    /\ ~Within(prevRight, decRate)

\* iterations allowed to a resync loop that started at speeds l and r with rate d
IterationBound(l, r, d) ==
    CeilDiv(Max(Abs(l - NEUTRAL_SPEED), Abs(r - NEUTRAL_SPEED)), d) + 1

(* C7: the resync loop terminates: every iteration moves each motor that   *)
(* is not yet within decRate of neutral decRate closer to neutral, and the *)
(* loop runs at most ceil(max(|prevLeft-500|, |prevRight-500|) / decRate)  *)
(* + 1 iterations, counted from the speeds it started with.                *)
C7_ResyncTerminates ==
    /\ [](resetCount.n + (IF pc = "resync" THEN 1 ELSE 0)
             <= IterationBound(resetCount.left, resetCount.right, resetCount.dec))
    /\ [][ResyncStep =>
             /\ ~Within(prevLeft, decRate) =>
                   Abs(prevLeft' - NEUTRAL_SPEED) = Abs(prevLeft - NEUTRAL_SPEED) - decRate
             /\ ~Within(prevRight, decRate) =>
                   Abs(prevRight' - NEUTRAL_SPEED) = Abs(prevRight - NEUTRAL_SPEED) - decRate]_vars

\* a loop that started with one motor at full reverse and the other at full forward
\* has ended after 500 iterations of one unit each
C7_Witness ==
    /\ pc = "ramp" /\ ~directionChanged
    /\ resetCount.left = 0 /\ resetCount.right = FORWARD_PULSE - REVERSE_PULSE
    /\ resetCount.dec = MIN_DECREASE_RAMPING
    /\ resetCount.n = 500

(* C8: between the start and the end of a resync episode no joystick       *)
(* sample is read, no target is computed and no touch is processed: while  *)
(* directionChanged is set nothing changes but prevLeft, prevRight, the    *)
(* pulses, the reset-complete flags, directionChanged itself and, through  *)
(* the interrupt, timePressed.                                             *)
C8_ResyncBlocksLoop ==
    [][directionChanged =>
          UNCHANGED <<sketch, debug, stamps, eeprom, settings, derived, trim, prevTimePressed, targets,
                      changes>>]_vars

\* a touch recorded by the interrupt is due and waits while the loop iterates
C8_Witness ==
    /\ directionChanged /\ pc = "resync" /\ resetCount.n >= 2
    /\ timePressed > prevTimePressed + CONSECUTIVE_TOUCH_DELAY

\* the rotateValue of every level the X axis can be classified to
RotateValues == { RotateValue(sketch, x, speedLimit) : x \in {0, 512, 1023} }

(* C9: whenever moveValue is not 0 both motor targets are the same for     *)
(* every X reading, so they are determined by moveValue alone; rotateValue *)
(* contributes to them only when moveValue is 0.                           *)
C9_OneAxisAtATime ==
    moveValue # 0 =>
        \A r \in RotateValues \cup {0} :
            /\ prevLeftMotorSpeed = LeftMotorSpeed(sketch, moveValue, r, trim)
            /\ prevRightMotorSpeed = RightMotorSpeed(sketch, moveValue, r, trim)

\* a cycle with both axes deflected has computed its targets
C9_Witness ==
    /\ pc = "ramp" /\ moveValue > 0 /\ rotateValue > 3

(* C10: for every reading of an axis and every pair of thresholds, X is    *)
(* classified Right (1023) iff the reading is above rightThresh, Left (0)  *)
(* iff it is below leftThresh and Neutral (512) otherwise, a reading equal *)
(* to a threshold being Neutral, and likewise Y with forwardThresh and     *)
(* reverseThresh; with thresholds 400 and 600, 700 is Right, 300 is Left   *)
(* and 500 is Neutral. (The reading of an axis is the value both of its    *)
(* analogRead() calls of the cycle return.)                                *)
C10_Classification ==
    pc = "sampled" =>
        /\ raw.xP = raw.xN =>
              /\ classified.x = 1023 <=> raw.xP > rightThresh
              /\ classified.x = 0 <=> raw.xP < leftThresh
              /\ classified.x = 512 <=> ~(raw.xP > rightThresh) /\ ~(raw.xP < leftThresh)
              /\ leftThresh = 400 /\ rightThresh = 600 =>
                    /\ raw.xP = 700 => classified.x = 1023
                    /\ raw.xP = 300 => classified.x = 0
                    /\ raw.xP = 500 => classified.x = 512
        /\ raw.yP = raw.yN =>
              /\ classified.y = 1023 <=> raw.yP > forwardThresh
              /\ classified.y = 0 <=> raw.yP < reverseThresh
              /\ classified.y = 512 <=> ~(raw.yP > forwardThresh) /\ ~(raw.yP < reverseThresh)

\* X reads exactly rightThresh and Y exactly reverseThresh, and both are Neutral
C10_Witness ==
    /\ pc = "sampled"
    /\ raw.xP = rightThresh /\ raw.xN = rightThresh /\ classified.x = 512
    /\ raw.yP = reverseThresh /\ raw.yN = reverseThresh /\ classified.y = 512

\* the first change of the targets was to full forward at the default speed limit and
\* acceleration rate, and the joystick has been held there since
FullForwardFromRest ==
    /\ speedLimit = DEFAULT_SPEED_LIMIT /\ accRate = DEFAULT_INCREASE_RAMPING
    /\ changes = 1 /\ moveValue = DEFAULT_SPEED_LIMIT

\* the cycles the scenario of the claim computes: ceil(256 / 15)
CyclesByTarget == CeilDiv(DEFAULT_SPEED_LIMIT, DEFAULT_INCREASE_RAMPING)

\* the cycles from neutral to the drive speed of the full-forward target: ceil(250 / 15)
CyclesByDriveSpeed ==
    CeilDiv(DriveTarget("Default", DEFAULT_SPEED_LIMIT) - NEUTRAL_SPEED, DEFAULT_INCREASE_RAMPING)

(* C11: with speedLimit 256 and accRate 15 a motor at rest whose target     *)
(* becomes the full-forward target and stays there reaches it after        *)
(* exactly 18 control cycles.                                              *)
C11_EighteenCycles ==
    FullForwardFromRest =>
        /\ prevLeft = DriveTarget(sketch, nextLeftSpeed) => rampCount.left = CyclesByTarget
        /\ prevRight = DriveTarget(sketch, nextRightSpeed) => rampCount.right = CyclesByTarget

(* C11, as amended: with speedLimit 256 and accRate 15 a motor at rest      *)
(* whose target becomes the full-forward target and stays there reaches    *)
(* the drive speed of that target after exactly 17 control cycles, not     *)
(* earlier and not later, and in none of those cycles does its speed       *)
(* change by more than 15 units.                                           *)
C11_SeventeenCycles ==
    /\ [](FullForwardFromRest =>
            /\ rampCount.left <= CyclesByDriveSpeed
            /\ rampCount.right <= CyclesByDriveSpeed
            /\ prevLeft = DriveTarget(sketch, nextLeftSpeed)
                  <=> rampCount.left = CyclesByDriveSpeed
            /\ prevRight = DriveTarget(sketch, nextRightSpeed)
                  <=> rampCount.right = CyclesByDriveSpeed)
    /\ [][FullForwardFromRest /\ DriveStep =>
            /\ Abs(prevLeft' - prevLeft) <= DEFAULT_INCREASE_RAMPING
            /\ Abs(prevRight' - prevRight) <= DEFAULT_INCREASE_RAMPING]_vars

\* both motors have arrived at their full-forward drive speeds in the 17th cycle
C11_Witness ==
    /\ FullForwardFromRest /\ pc = "loop"
    /\ prevLeft = DriveTarget("Default", DEFAULT_SPEED_LIMIT)
    /\ rampCount.left = 17 /\ rampCount.right = 17
    /\ prevRight = DriveTarget(sketch, nextRightSpeed)

\* the distance of a drive speed from neutral
Magnitude(speed) == Abs(speed - NEUTRAL_SPEED)

(* C12: a step of a motor towards its target is bounded by accRate when     *)
(* the distance of its speed from neutral is increasing and by decRate     *)
(* when that distance is decreasing, also when accRate > decRate; stated   *)
(* for both directions on the left motor and for the decreasing direction  *)
(* on the right motor.                                                     *)
C12_RateByDirection ==
    [][(DriveStep \/ ResyncStep) =>
          /\ Magnitude(prevLeft') > Magnitude(prevLeft) =>
                Abs(prevLeft' - prevLeft) <= accRate
          /\ Magnitude(prevLeft') < Magnitude(prevLeft) =>
                Abs(prevLeft' - prevLeft) <= decRate
          /\ Magnitude(prevRight') < Magnitude(prevRight) =>
                Abs(prevRight' - prevRight) <= decRate]_vars

\* the targets of the cycle have been computed
TargetsComputed == pc \in {"resync", "ramp"}

(* C13: for every joystick input, every speed limit and every value of the  *)
(* four trims, each motor's target after the trim is applied has magnitude *)
(* at most speedLimit.                                                     *)
C13_TargetWithinLimit ==
    TargetsComputed =>
        /\ Abs(nextLeftSpeed) <= speedLimit
        /\ Abs(nextRightSpeed) <= speedLimit

\* the moveValue of the joystick pushed fully forward under the present limit
FullForward == MoveValue(1023, speedLimit)

(* C14: the moveValue of a full-reverse input has the magnitude of the     *)
(* full-forward moveValue divided by REVERSE_SPEED_RATIO, the rounding of  *)
(* the division left open.                                                 *)
C14_ReverseSlower ==
    TargetsComputed /\ moveValue < 0 =>
        /\ -moveValue * REVERSE_SPEED_RATIO_NUM > FullForward * REVERSE_SPEED_RATIO_DEN - REVERSE_SPEED_RATIO_NUM
        /\ -moveValue * REVERSE_SPEED_RATIO_NUM < FullForward * REVERSE_SPEED_RATIO_DEN + REVERSE_SPEED_RATIO_NUM

\* speedLimit / TURN_SPEED_RATIO, rounded towards zero and away from zero
TurnDown == TruncDiv(speedLimit * TURN_SPEED_RATIO_DEN, TURN_SPEED_RATIO_NUM)
TurnUp == CeilDiv(speedLimit * TURN_SPEED_RATIO_DEN, TURN_SPEED_RATIO_NUM)

(* C15, as stated: a full-left and a full-right input give rotateValues of *)
(* the same magnitude, speedLimit / TURN_SPEED_RATIO truncated, and of     *)
(* opposite sign.                                                          *)
C15_EqualTurnMagnitude ==
    TargetsComputed =>
        /\ RotateValue(sketch, 1023, speedLimit) = TurnDown
        /\ RotateValue(sketch, 0, speedLimit) = -TurnDown
        /\ rotateValue > 3 => rotateValue = TurnDown
        /\ rotateValue < -3 => rotateValue = -TurnDown

(* C15, amended: a full-right input gives speedLimit / TURN_SPEED_RATIO    *)
(* rounded down, a full-left input gives minus that quotient rounded up, so *)
(* the magnitudes differ by at most 1, and a magnitude below               *)
(* MIN_SPEED_LIMIT is raised to MIN_SPEED_LIMIT.                           *)
C15_TurnMagnitude ==
    TargetsComputed =>
        /\ RotateValue(sketch, 1023, speedLimit) = Max(TurnDown, MIN_SPEED_LIMIT)
        /\ RotateValue(sketch, 0, speedLimit) = -Max(TurnUp, MIN_SPEED_LIMIT)
        /\ rotateValue > 3 => rotateValue = Max(TurnDown, MIN_SPEED_LIMIT)
        /\ rotateValue < -3 => rotateValue = -Max(TurnUp, MIN_SPEED_LIMIT)
        /\ TurnUp - TurnDown <= 1

\* a full-left turn above the minimum whose magnitude is the quotient rounded up
C15_Witness ==
    /\ TargetsComputed /\ moveValue = 0
    /\ rotateValue < -MIN_SPEED_LIMIT
    /\ rotateValue = -TurnUp /\ TurnUp > TurnDown

\* loop() handles an accepted touch
PressStep == pc = "loop" /\ prevTimePressed' # prevTimePressed

(* C16, as stated: an accepted up/down press recomputes the threshold,     *)
(* speed limit or rate from the new percentage, so the cycle that follows  *)
(* the press uses the new value.                                           *)
C16_LiveAdjust ==
    [][PressStep /\ percent' # percent =>
          derived' = SetupDerived(percent') \/ derived' = SaveDerived(percent')]_vars

(* C16, amended: an accepted up/down press changes the percentage only;    *)
(* the thresholds, speed limit and rates change after setup() only when    *)
(* the save button is pressed, which stores the percentages and recomputes *)
(* all seven values from them, and the control cycle leaves them alone.    *)
C16_AppliedOnSave ==
    /\ [][PressStep /\ percent' # percent => derived' = derived /\ eeprom' = eeprom]_vars
    /\ [][pc # "setup" /\ derived' # derived =>
             /\ PressStep /\ percent' = percent
             /\ eeprom' = percent
             /\ derived' = SaveDerived(percent)]_vars

\* a control cycle has computed its targets with the threshold of the stored percentage
\* while the forward sensitivity percentage has been changed by a press
C16_Witness ==
    /\ sketch = "LCD" /\ pc = "ramp"
    /\ percent[FORWARD_SENS_ADDRESS] # ClampPercent(eeprom[FORWARD_SENS_ADDRESS])
    /\ forwardThresh = SetupDerived([a \in 1..7 |-> ClampPercent(eeprom[a])])[1]
    /\ forwardThresh # SetupDerived(percent)[1]
    /\ forwardThresh # SaveDerived(percent)[1]

\* setup() has run and no touch has been handled since
AtStartup == pc # "setup" /\ prevTimePressed = 0

(* C17: at startup of an LCD build every stored percentage above 100 is    *)
(* replaced by 100 in the setting variable that the program reads, shows   *)
(* and saves, and every stored percentage of 100 or less is kept as read.  *)
C17_ClampedAtStartup ==
    sketch \in {"LCD", "NewBoardLCD"} /\ AtStartup =>
        \A a \in 1..7 : percent[a] = IF eeprom[a] > 100 THEN 100 ELSE eeprom[a]

\* the part of C17 that holds: the LCD sketch clamps its settings and derives the
\* thresholds, the speed limit and the rates from the clamped values
ClampedBeforeDerived ==
    sketch = "LCD" /\ AtStartup =>
        /\ \A a \in 1..7 : percent[a] = IF eeprom[a] > 100 THEN 100 ELSE eeprom[a]
        /\ derived = SetupDerived(percent)

\* the save button has recomputed the seven values from the percentages
AfterSave ==
    /\ sketch = "LCD" /\ prevTimePressed > 0
    /\ forwardThresh = SaveDerived(percent)[FORWARD_SENS_ADDRESS]
    /\ forwardThresh # SetupDerived(percent)[FORWARD_SENS_ADDRESS]

(* C18: once setup() has run accRate and decRate are never zero: they lie  *)
(* between the smallest and the largest ramping rate, 1 and 30, for every  *)
(* stored percentage, at startup, after a save, and in the builds that     *)
(* drive with their compiled-in defaults.                                  *)
C18_RatesNeverZero ==
    pc # "setup" =>
        /\ accRate # 0 /\ decRate # 0
        /\ accRate \in MIN_INCREASE_RAMPING..MAX_INCREASE_RAMPING
        /\ decRate \in MIN_DECREASE_RAMPING..MAX_DECREASE_RAMPING

\* a save with the acceleration percentage at 0 and the deceleration percentage at 100
C18_Witness ==
    /\ AfterSave
    /\ percent[ACC_RATE_ADDRESS] = 0 /\ accRate = MIN_INCREASE_RAMPING
    /\ percent[DEC_RATE_ADDRESS] = 100 /\ decRate = MAX_DECREASE_RAMPING

(* C19: once setup() has run, at startup and after a save, the reverse     *)
(* threshold lies below the forward threshold and the left threshold below *)
(* the right threshold, and all four lie in the range 0..1023 of an analog *)
(* reading, for every stored combination of the sensitivities.             *)
C19_ThresholdsOrdered ==
    pc # "setup" =>
        /\ reverseThresh < forwardThresh
        /\ leftThresh < rightThresh
        /\ {forwardThresh, reverseThresh, leftThresh, rightThresh} \subseteq 0..1023

\* a save with the forward sensitivity at 0 and the reverse sensitivity at 100, where the
\* two thresholds come closest
C19_Witness ==
    /\ AfterSave
    /\ percent[FORWARD_SENS_ADDRESS] = 0 /\ percent[REVERSE_SENS_ADDRESS] = 100
    /\ forwardThresh = MIN_FORWARD_THRESH /\ reverseThresh = MAX_REVERSE_THRESH

(* C20: in every cycle and for each axis at most one of the two flags      *)
(* "reading above the positive threshold" (x_p, y_p) and "reading below    *)
(* the negative threshold" (x_n, y_n) is set, whatever the analog reads    *)
(* of the cycle return.                                                    *)
C20_FlagsExclusive ==
    pc = "sampled" =>
        /\ ~(raw.xP > rightThresh /\ raw.xN < leftThresh)
        /\ ~(raw.yP > forwardThresh /\ raw.yN < reverseThresh)

\* a pulse has been written to the motor controller
LeftWritten == leftMotorPulse # 0
RightWritten == rightMotorPulse # 0

(* C21: the pulse of a motor whose inversion flag is set is FORWARD_PULSE   *)
(* minus its drive speed, which is FORWARD_PULSE + REVERSE_PULSE minus the *)
(* pulse of a motor that is not inverted at that speed, and it falls when  *)
(* the speed rises; drive() and the resync loop both map this way.         *)
C21_InvertedPulse ==
    /\ [](/\ LeftWritten =>
               leftMotorPulse = IF sketch = "NewBoard" /\ INVERT_LEFT_MOTOR
                                THEN FORWARD_PULSE - prevLeft ELSE REVERSE_PULSE + prevLeft
          /\ RightWritten =>
               rightMotorPulse = IF sketch = "NewBoard" /\ INVERT_RIGHT_MOTOR
                                 THEN FORWARD_PULSE - prevRight ELSE REVERSE_PULSE + prevRight
          /\ MotorPulse(TRUE, prevRight) =
                FORWARD_PULSE + REVERSE_PULSE - MotorPulse(FALSE, prevRight))
    /\ [][(DriveStep \/ ResyncStep) /\ sketch = "NewBoard" /\ INVERT_RIGHT_MOTOR /\ RightWritten =>
             /\ prevRight' > prevRight => rightMotorPulse' < rightMotorPulse
             /\ prevRight' < prevRight => rightMotorPulse' > rightMotorPulse]_vars

\* the resync loop of the New Board sketch has written a pulse to its inverted right motor
\* at a speed above neutral
C21_Witness ==
    /\ sketch = "NewBoard" /\ INVERT_RIGHT_MOTOR
    /\ pc = "resync" /\ resetCount.n >= 1
    /\ prevRight > NEUTRAL_SPEED
    /\ rightMotorPulse = FORWARD_PULSE - prevRight
    /\ rightMotorPulse < REVERSE_PULSE + NEUTRAL_SPEED

(* C22: with debug mode engaged no pulse is written to either motor, by    *)
(* drive() or by the resync loop, while every call of drive() and every    *)
(* iteration of the resync loop computes the speeds, prevLeft, prevRight   *)
(* and the interlock flags from the state before it as they are computed   *)
(* with debug mode off.                                                    *)
C22_PulseWithheld ==
    /\ [](debug => ~LeftWritten /\ ~RightWritten)
    /\ [][debug /\ DriveStep =>
             /\ prevLeft' = I16(RampLeft(sketch, DriveTarget(sketch, nextLeftSpeed), prevLeft, accRate))
             /\ prevRight' = I16(RampRight(sketch, DriveTarget(sketch, nextRightSpeed), prevRight, accRate))
             /\ UNCHANGED <<interlock, targets>>]_vars
    /\ [][debug /\ ResyncStep =>
             /\ prevLeft' = I16(ResetSpeed(U16(prevLeft), decRate))
             /\ prevRight' = I16(ResetSpeed(U16(prevRight), decRate))
             /\ leftResetComplete' = (leftResetComplete \/ ResetComplete(U16(prevLeft), decRate))
             /\ rightResetComplete' = (rightResetComplete \/ ResetComplete(U16(prevRight), decRate))
             /\ directionChanged' = ~(leftResetComplete' /\ rightResetComplete')
             /\ UNCHANGED targets]_vars

\* in debug mode a resync has slowed the left motor from a speed far from neutral while
\* the motor controller has received nothing
C22_Witness ==
    /\ debug /\ pc = "resync" /\ resetCount.n >= 1
    /\ ~Within(resetCount.left, MAX_DECREASE_RAMPING)
    /\ prevLeft # resetCount.left
    /\ ~LeftWritten /\ ~RightWritten

(* C23: the touch interrupt handler changes nothing but the recorded       *)
(* timestamp, wherever the main program is, and the main loop handles a    *)
(* touch only when the recorded timestamp lies more than                   *)
(* CONSECUTIVE_TOUCH_DELAY after the timestamp of the touch handled before.*)
C23_Debounced ==
    /\ [][pc' = pc /\ timePressed' # timePressed =>
             UNCHANGED <<sketch, debug, stamps, eeprom, settings, derived, trim, prevTimePressed,
                         targets, interlock, motors, resetCount, changes, rampCount, samples>>]_vars
    /\ [][PressStep => timePressed' > prevTimePressed + CONSECUTIVE_TOUCH_DELAY]_vars

\* setup() is stuck in "while (1) delay(10)" after touch.begin() failed
Halted == pc = "halt"

(* C24: if the touchscreen fails to initialise in the LCD build, setup()   *)
(* never completes: the program stays where it is, no joystick sample is   *)
(* classified, no target is computed and no pulse is written to a motor.   *)
C24_FailStop ==
    /\ [](Halted =>
            /\ sketch = "LCD"
            /\ ~LeftWritten /\ ~RightWritten
            /\ prevLeft = NEUTRAL_SPEED /\ prevRight = NEUTRAL_SPEED
            /\ moveValue = 0 /\ rotateValue = 0
            /\ nextLeftSpeed = 0 /\ nextRightSpeed = 0
            /\ ~directionChanged /\ changes = 0
            /\ prevTimePressed = 0)
    /\ [][Halted => pc' = "halt" /\ UNCHANGED <<targets, interlock, motors, settings, derived>>]_vars

\* the halted program has taken a touch interrupt that would be due for handling
C24_Witness ==
    /\ Halted
    /\ timePressed > prevTimePressed + CONSECUTIVE_TOUCH_DELAY

\* both motors run at the drive speed of their target
AtTarget ==
    /\ prevLeft = DriveTarget(sketch, nextLeftSpeed)
    /\ prevRight = DriveTarget(sketch, nextRightSpeed)

\* a cycle that computes the targets of the cycle before
SameTarget ==
    /\ prevLeftMotorSpeed' = prevLeftMotorSpeed
    /\ prevRightMotorSpeed' = prevRightMotorSpeed

ResyncEnded == pc = "ramp" /\ resetCount.n > 1

\* the targets drive() was called with are those of the last joystick sample
TargetsOfSample ==
    /\ nextLeftSpeed = NextSpeed(sketch, prevLeftMotorSpeed)
    /\ nextRightSpeed = NextSpeed(sketch, prevRightMotorSpeed)

(* C26: no iteration of a resync changes the targets, so the ramp step     *)
(* drive() takes when the resync ends is toward the targets computed from  *)
(* the joystick sample that started it; a cycle that computes different    *)
(* targets, the first to see a changed joystick, starts a resync.          *)
C26_RampTowardTrigger ==
    /\ [][pc = "resync" => targets' = targets]_vars
    /\ [](pc \in {"resync", "ramp"} => TargetsOfSample)
    /\ [][pc = "ramp" /\ pc' = "loop" =>
            /\ prevLeft' = I16(RampLeft(sketch, DriveTarget(sketch, nextLeftSpeed), prevLeft, accRate))
            /\ prevRight' = I16(RampRight(sketch, DriveTarget(sketch, nextRightSpeed), prevRight, accRate))]_vars
    /\ [][pc = "joystick" /\ ~SameTarget => pc' = "resync"]_vars

\* a resync that took several iterations has ended with the targets that started it
C26_Witness ==
    /\ ResyncEnded
    /\ TargetsOfSample
    /\ changes = MaxChanges
    /\ ~Within(DriveTarget(sketch, nextLeftSpeed), accRate)

\* drive() has returned from a cycle in which both motors were given the same straight target
StraightRamp ==
    /\ pc = "loop" /\ changes > 0
    /\ moveValue # 0
    /\ nextLeftSpeed = nextRightSpeed

(* C27: whenever both motors are commanded the same target (straight       *)
(* forward or reverse with equal trims) the two drive speeds are equal     *)
(* after every cycle of the ramp, also when the straight command follows a *)
(* turn and its resync.                                                    *)
C27_MotorsInSync == StraightRamp => prevLeft = prevRight

\* the cycle sampled both axes inside their deadzones: x = y = 512 in the truth table
NeutralSampled ==
    /\ TargetsComputed
    /\ moveValue = MoveValue(512, speedLimit)
    /\ rotateValue = RotateValue(sketch, 512, speedLimit)

(* C28: when both joystick axes read inside their deadzones, moveValue and *)
(* rotateValue are 0 and both motor targets are 0, with no trim applied,   *)
(* for every speed limit: a neutral stick is never turned into a small     *)
(* turn or drive command.                                                  *)
C28_NeutralIsStop ==
    NeutralSampled =>
        /\ moveValue = 0 /\ rotateValue = 0
        /\ prevLeftMotorSpeed = 0 /\ prevRightMotorSpeed = 0

\* a button was pressed: the percentages before the press are those in eeprom
ButtonPressed == pc = "joystick"

Least(a, b) == IF a < b THEN a ELSE b
Greatest(a, b) == IF a > b THEN a ELSE b

(* C29: after a press of an up or down button with increment 1, 5 or 10,   *)
(* from percentages in [0,100] and in 16-bit unsigned arithmetic, each of  *)
(* the seven percentages is in [0,100]: a setting that changed went up by  *)
(* the increment, to 100 at most, or down by it, to 0 at least.            *)
C29_PercentInRange ==
    \A a \in 1..7 :
        /\ percent[a] \in 0..100
        /\ ButtonPressed /\ percent[a] # eeprom[a] =>
              percent[a] \in { Least(eeprom[a] + readoutIncrement, 100),
                               Greatest(eeprom[a] - readoutIncrement, 0) }

\* a decrease by 10 from 3 %, which wraps to 65529 in the test, has given 0
C29_Witness ==
    /\ ButtonPressed
    /\ readoutIncrement = 10
    /\ eeprom[SPEED_LIMIT_ADDRESS] = 3
    /\ percent[SPEED_LIMIT_ADDRESS] = 0

\* the derived parameters a restart would compute from the stored percentages
StartupDerived == SetupDerived([a \in 1..7 |-> ClampPercent(eeprom[a])])

(* C30: for every percentage and each of the seven settings the parameter  *)
(* computed when Save is pressed equals the one computed at startup from   *)
(* the same stored percentage: after setup(), and after every save, the    *)
(* derived parameters are those a restart would compute from the EEPROM.   *)
C30_SaveMatchesStartup ==
    sketch = "LCD" /\ pc \notin {"setup", "halt"} => DerivedIs(StartupDerived)

====
